---- MODULE Spec2Model ----
(***************************************************************************)
(* Model of nxc/netexec.py: main() (setup, safety prompts, callback server *)
(* lifecycle, teardown) and start_run() (the worker-pool dispatch).        *)
(***************************************************************************)
EXTENDS Integers, Sequences, FiniteSets, TLC

VARIABLES
    pc,             \* position of main()/start_run()
    exit_code,      \* process exit status, -1 while the process is alive
    argv,           \* the command line as given (args before main mutates it)
    args,           \* the argparse namespace (mutated by main)
    ignore_opsec,   \* nxc.config.ignore_opsec
    cred_it,        \* index of the list iterator of `for cred_id in args.cred_id`
    target_it,      \* index of the iterator of `for target in args.target`
    targets,        \* the local list `targets`
    module_it,      \* index of the iterator of `for m in map(str.lower, args.module)`
    proto,          \* protocol_object: [module |-> list, server |-> server index or 0]
    servers,        \* every NXCHTTPServer(...) call of this run, in order
    module_server,  \* the local `module_server`: index into servers, 0 for None
    db,             \* db_engine: "none", "created", "disposed"; plus dispose calls
    prompts,        \* the input() prompts issued so far, in order
    ans,            \* the local `ans` while its check is pending or has ended the run
    futures,        \* the executor's work items, in submission order
    pool,           \* max_workers of the ThreadPoolExecutor, 0 before it exists
    progress,       \* rich Progress: "none" | "live" | "closed"
    current,        \* the local `current` of start_run
    yielded,        \* futures already yielded by as_completed
    exc             \* exception travelling out of start_run: "none" or its name

vars == <<pc, exit_code, argv, args, ignore_opsec, cred_it, target_it, targets,
          module_it, proto, servers, module_server, db, prompts, ans,
          futures, pool, progress, current, yielded, exc>>

-----------------------------------------------------------------------------
(* Bounds of the model.                                                    *)
MaxCredIds == 3
MaxTargetArgs == 2
MaxModules == 2
MaxTargets == 3
MaxThreads == 1

-----------------------------------------------------------------------------
(* Generic helpers.                                                        *)
RECURSIVE SeqSum(_)
SeqSum(s) == IF s = <<>> THEN 0 ELSE Head(s) + SeqSum(Tail(s))

RECURSIVE Flatten(_)
Flatten(ss) == IF ss = <<>> THEN <<>> ELSE Head(ss) \o Flatten(Tail(ss))

Range(s) == {s[i] : i \in DOMAIN s}

SeqsUpTo(S, n) == UNION {[1..k -> S] : k \in 0..n}

\* range(a, b + 1) as a list
RECURSIVE IntRange(_, _)
IntRange(a, b) == IF a > b THEN <<>> ELSE <<a>> \o IntRange(a + 1, b)

\* list.remove(x): drop the first element equal to x
RECURSIVE RemoveFirst(_, _)
RemoveFirst(s, x) ==
    IF s = <<>> THEN <<>>
    ELSE IF Head(s) = x THEN Tail(s)
    ELSE <<Head(s)>> \o RemoveFirst(Tail(s), x)

-----------------------------------------------------------------------------
(* Credential ids.  A list element is a str (a tuple of characters) or an  *)
(* int appended by the expansion.                                          *)
PyStr(s) == [t |-> "str", s |-> s, n |-> 0]
PyInt(n) == [t |-> "int", s |-> <<>>, n |-> n]

Digits == {"0", "1", "2", "3", "4", "5", "6", "7", "8", "9"}

DigitVal(c) ==
    CASE c = "0" -> 0 [] c = "1" -> 1 [] c = "2" -> 2 [] c = "3" -> 3
      [] c = "4" -> 4 [] c = "5" -> 5 [] c = "6" -> 6 [] c = "7" -> 7
      [] c = "8" -> 8 [] c = "9" -> 9

\* str(cred_id) contains "-"
HasDash(e) ==
    IF e.t = "str" THEN \E i \in DOMAIN e.s : e.s[i] = "-" ELSE e.n < 0

\* s.split("-")
RECURSIVE SplitDash(_, _)
SplitDash(s, acc) ==
    IF s = <<>> THEN <<acc>>
    ELSE IF Head(s) = "-" THEN <<acc>> \o SplitDash(Tail(s), <<>>)
    ELSE SplitDash(Tail(s), Append(acc, Head(s)))

\* int(s) raises ValueError
IntRaises(s) == s = <<>> \/ \E i \in DOMAIN s : s[i] \notin Digits

\* int(s) for a string of decimal digits
RECURSIVE IntOf(_)
IntOf(s) ==
    IF s = <<>> THEN 0
    ELSE 10 * IntOf(SubSeq(s, 1, Len(s) - 1)) + DigitVal(s[Len(s)])

\* Outcome of the body of `for cred_id in args.cred_id` (lines 121-129) for
\* element e of list l: the new list and how the body ended.
CredIdBody(l, e) ==
    IF ~HasDash(e) THEN [list |-> l, end |-> "next"]
    ELSE IF e.t # "str" THEN [list |-> l, end |-> "AttributeError"]
    ELSE LET parts == SplitDash(e.s, <<>>) IN
         IF Len(parts) # 2 THEN [list |-> l, end |-> "ValueError"]
         ELSE IF IntRaises(parts[1]) \/ IntRaises(parts[2])
              THEN [list |-> l, end |-> "exit"]
         ELSE LET ns == IntRange(IntOf(parts[1]), IntOf(parts[2]))
                  appended == l \o [i \in DOMAIN ns |-> PyInt(ns[i])]
              IN [list |-> RemoveFirst(appended, e), end |-> "next"]

-----------------------------------------------------------------------------
(* Targets.  An address is the integer n standing for the host 10.0.0.n; a *)
(* target expression is a host or an inclusive range of hosts.             *)
Expr(a, b) == [first |-> a, last |-> b]

\* nxc.parsers.ip.parse_targets: the addresses an expression denotes, in order
parse_targets(e) == IntRange(e.first, e.last)

\* nxc.parsers.nmap.parse_nmap_xml / nxc.parsers.nessus.parse_nessus_file:
\* the hosts the report lists, in order
parse_nmap_xml(t) == Flatten([i \in DOMAIN t.lines |-> parse_targets(t.lines[i])])
parse_nessus_file(t) == Flatten([i \in DOMAIN t.lines |-> parse_targets(t.lines[i])])

\* Body of `for target in args.target` (lines 133-144)
TargetBody(ts, t) ==
    IF t.file = "nmap" THEN ts \o parse_nmap_xml(t)
    ELSE IF t.file = "nessus" THEN ts \o parse_nessus_file(t)
    ELSE IF t.file = "list"
         THEN ts \o Flatten([i \in DOMAIN t.lines |-> parse_targets(t.lines[i])])
    ELSE ts \o parse_targets(t.lines[1])

-----------------------------------------------------------------------------
(* Process exit: sys.exit(code) or an uncaught exception.                  *)
Exit(code) == /\ pc' = "exited"
              /\ exit_code' = code

-----------------------------------------------------------------------------
(* main(), lines 119-129: credential-id expansion.                         *)
CredIdExpand ==
    /\ pc = "cred_id"
    /\ cred_it < Len(args.cred_id)
    /\ LET r == CredIdBody(args.cred_id, args.cred_id[cred_it + 1]) IN
         /\ args' = [args EXCEPT !.cred_id = r.list]
         /\ IF r.end = "next"
            THEN /\ cred_it' = cred_it + 1
                 /\ UNCHANGED <<pc, exit_code, exc>>
            ELSE /\ Exit(1)
                 /\ exc' = IF r.end = "exit" THEN "SystemExit" ELSE r.end
                 /\ UNCHANGED cred_it
    /\ UNCHANGED <<argv, ignore_opsec, target_it, targets, module_it, proto, servers,
                   module_server, db, prompts, ans, futures, pool, progress,
                   current, yielded>>

CredIdDone ==
    /\ pc = "cred_id"
    /\ cred_it >= Len(args.cred_id)
    /\ pc' = "target"
    /\ UNCHANGED <<exit_code, argv, args, ignore_opsec, cred_it, target_it, targets,
                   module_it, proto, servers, module_server, db, prompts, ans,
                   futures, pool, progress, current, yielded, exc>>

(* main(), lines 131-144: target list building.                            *)
TargetExtend ==
    /\ pc = "target"
    /\ target_it < Len(args.target)
    /\ targets' = TargetBody(targets, args.target[target_it + 1])
    /\ target_it' = target_it + 1
    /\ UNCHANGED <<pc, exit_code, argv, args, ignore_opsec, cred_it, module_it, proto,
                   servers, module_server, db, prompts, ans, futures, pool,
                   progress, current, yielded, exc>>

(* main(), lines 155-175: protocol loading and creation of the db engine.  *)
TargetDone ==
    /\ pc = "target"
    /\ target_it >= Len(args.target)
    /\ pc' = "module"
    /\ db' = [state |-> "created", disposed |-> 0]
    /\ UNCHANGED <<exit_code, argv, args, ignore_opsec, cred_it, target_it, targets,
                   module_it, proto, servers, module_server, prompts, ans,
                   futures, pool, progress, current, yielded, exc>>

-----------------------------------------------------------------------------
(* Modules.  What ModuleLoader.list_modules()/init_module() expose of each *)
(* module: hooks is hasattr(module, "on_request") or hasattr(module,       *)
(* "has_response"); required_server is "" when the attribute is absent.    *)
(* "unsafe" is neither opsec safe nor made for several hosts, "single" is  *)
(* not made for several hosts, "web" and "smbsrv" have the hooks.          *)
ModuleDef(o, mh, h, rs) ==
    [opsec_safe |-> o, multiple_hosts |-> mh, hooks |-> h, required_server |-> rs]

modules ==
    [n \in {"unsafe", "single", "web", "smbsrv"} |->
        CASE n = "unsafe" -> ModuleDef(FALSE, FALSE, FALSE, "")
          [] n = "single" -> ModuleDef(TRUE, FALSE, FALSE, "")
          [] n = "web"    -> ModuleDef(TRUE, TRUE, TRUE, "")
          [] n = "smbsrv" -> ModuleDef(TRUE, TRUE, TRUE, "smb")]

\* str.lower on the strings of the model
Lower(s) ==
    CASE s = "Y" -> "y" [] s = "YES" -> "yes" [] s = "Yes" -> "yes"
      [] s = "N" -> "n" [] s = "WEB" -> "web" [] OTHER -> s

\* line 117
server_port_dict == [k \in {"http", "https", "smb"} |->
                        CASE k = "http" -> 80 [] k = "https" -> 443 [] k = "smb" -> 445]

\* Declined with "n" taken as an agreement
DeclinedMutant(a) == Lower(a) \notin {"y", "yes", "", "n"}

\* `ans.lower() not in ["y", "yes", ""]` (lines 211, 221, 262)
Declined(a) == Lower(a) \notin {"y", "yes", ""}

Answers == {"", "y", "Y", "yes", "YES", "n", "no"}

\* The module the loop is working on: the element the iterator last produced
CurrentName == Lower(args.module[module_it])
CurrentModule == modules[CurrentName]

\* Outcomes of the try block of lines 232-243
ServerOutcomes == {"ok", "ctor_raises", "start_raises"}

\* Lines 224-245: callback-server setup for module `name`; `out` is how the
\* try block ends.  Yields the new args, servers, module_server and proto.
\* A call whose constructor raised leaves no object behind (constructed is
\* FALSE); it is kept in `servers` as the record of the error of line 245.
ServerSetup(a, srvs, ms, pr, name, out) ==
    LET mod == modules[name]
        a1 == IF mod.required_server # ""
              THEN [a EXCEPT !.server = mod.required_server] ELSE a
        a2 == IF a1.server_port = 0
              THEN [a1 EXCEPT !.server_port = server_port_dict[a1.server]] ELSE a1
        obj == [module |-> name, port |-> a2.server_port, kind |-> a2.server,
                constructed |-> out # "ctor_raises",
                start_calls |-> IF out = "ctor_raises" THEN 0 ELSE 1,
                started |-> out = "ok", shutdown_calls |-> 0]
        idx == Len(srvs) + 1
    IN IF ~mod.hooks
       THEN [args |-> a, servers |-> srvs, module_server |-> ms, proto |-> pr]
       ELSE IF out = "ctor_raises"
       THEN [args |-> a2, servers |-> Append(srvs, obj), module_server |-> ms,
             proto |-> pr]
       ELSE [args |-> a2, servers |-> Append(srvs, obj), module_server |-> idx,
             proto |-> IF out = "ok" THEN [pr EXCEPT !.server = idx] ELSE pr]

\* Lines 249-252: current_modules.append(module)
AttachModule(pr, name) == [pr EXCEPT !.module = Append(@, name)]

\* ServerAndAttach with a server failure ending the run
ServerAndAttachMutant(name) ==
    \E out \in IF modules[name].hooks THEN ServerOutcomes ELSE {"ok"} :
        LET r == ServerSetup(args, servers, module_server, proto, name, out) IN
            /\ args' = r.args
            /\ servers' = r.servers
            /\ module_server' = r.module_server
            /\ IF out = "ok"
               THEN /\ proto' = AttachModule(r.proto, name)
                    /\ pc' = "module"
                    /\ UNCHANGED <<exit_code, exc>>
               ELSE /\ proto' = r.proto
                    /\ Exit(1)
                    /\ exc' = "SystemExit"

\* Lines 224-253 as a step of main: server setup, then attach; back to the loop
ServerAndAttach(name) ==
    \E out \in IF modules[name].hooks THEN ServerOutcomes ELSE {"ok"} :
        LET r == ServerSetup(args, servers, module_server, proto, name, out) IN
            /\ args' = r.args
            /\ servers' = r.servers
            /\ module_server' = r.module_server
            /\ proto' = AttachModule(r.proto, name)
            /\ pc' = "module"
            /\ UNCHANGED <<exit_code, exc>>

\* Line 214: the multiple-hosts prompt is needed
NeedsHostsPrompt(name) == ~modules[name].multiple_hosts /\ Len(targets) > 1

\* Line 200-201: the opsec prompt is needed
NeedsOpsecPrompt(name) == ~modules[name].opsec_safe /\ ~ignore_opsec

\* Lines 214-253 for a module whose opsec gate has been passed
HostsGate(name, ps) ==
    IF NeedsHostsPrompt(name)
    THEN /\ pc' = "hosts_prompt"
         /\ prompts' = Append(ps, "hosts")
         /\ UNCHANGED <<exit_code, exc, args, servers, module_server, proto>>
    ELSE /\ prompts' = ps
         /\ ServerAndAttach(name)

dispatchVars == <<futures, pool, progress, current, yielded>>

NoAnswer == "<none>"

(* main(), lines 192-212: next module of the loop, up to its first prompt. *)
ModuleLoad ==
    /\ pc = "module"
    /\ module_it < Len(args.module)
    /\ module_it' = module_it + 1
    /\ LET m == Lower(args.module[module_it + 1]) IN
         IF m \notin DOMAIN modules
         THEN /\ Exit(1)
              /\ exc' = "SystemExit"
              /\ UNCHANGED <<args, servers, module_server, proto, prompts>>
         ELSE IF NeedsOpsecPrompt(m)
         THEN /\ pc' = "opsec_prompt"
              /\ prompts' = Append(prompts, "opsec")
              /\ UNCHANGED <<exit_code, exc, args, servers, module_server, proto>>
         ELSE HostsGate(m, prompts)
    /\ UNCHANGED <<argv, ignore_opsec, cred_it, target_it, targets, db, ans>>
    /\ UNCHANGED dispatchVars

(* input() of lines 205, 215, 256 returns what the operator typed.         *)
OperatorAnswers ==
    /\ pc \in {"opsec_prompt", "hosts_prompt", "ntds_prompt"}
    /\ ans' \in Answers
    /\ pc' = CASE pc = "opsec_prompt" -> "opsec_check"
               [] pc = "hosts_prompt" -> "hosts_check"
               [] pc = "ntds_prompt" -> "ntds_check"
    /\ UNCHANGED <<exit_code, exc, argv, args, ignore_opsec, cred_it, target_it,
                   targets, module_it, proto, servers, module_server, db, prompts>>
    /\ UNCHANGED dispatchVars

\* A declined prompt: exit(1) (lines 212, 222, 263); `ans` is kept
DeclineExit ==
    /\ Exit(1)
    /\ exc' = "SystemExit"
    /\ UNCHANGED ans

(* main(), lines 211-253: the answer to the opsec prompt is checked; the   *)
(* loop body goes on to its next prompt or to its end.                     *)
OpsecCheck ==
    /\ pc = "opsec_check"
    /\ IF Declined(ans)
       THEN /\ DeclineExit
            /\ UNCHANGED <<args, servers, module_server, proto, prompts>>
       ELSE /\ HostsGate(CurrentName, prompts)
            /\ ans' = NoAnswer
    /\ UNCHANGED <<argv, ignore_opsec, cred_it, target_it, targets, module_it, db>>
    /\ UNCHANGED dispatchVars

(* main(), lines 221-253: the answer to the multiple-hosts prompt is       *)
(* checked; the loop body goes on to its end.                              *)
HostsCheck ==
    /\ pc = "hosts_check"
    /\ IF Declined(ans)
       THEN /\ DeclineExit
            /\ UNCHANGED <<args, servers, module_server, proto>>
       ELSE /\ ServerAndAttach(CurrentName)
            /\ ans' = NoAnswer
    /\ UNCHANGED <<argv, ignore_opsec, cred_it, target_it, targets, module_it,
                   db, prompts>>
    /\ UNCHANGED dispatchVars

\* Line 255: the ntds prompt is needed
NeedsNtdsPrompt == args.ntds /\ ~args.userntds

\* ModulesDone with the ntds gate left out
ModulesDoneMutant ==
    /\ pc = "module"
    /\ module_it >= Len(args.module)
    /\ pc' = "dispatch"
    /\ UNCHANGED <<exit_code, exc, argv, args, ignore_opsec, cred_it, target_it,
                   targets, module_it, proto, servers, module_server, db,
                   prompts, ans>>
    /\ UNCHANGED dispatchVars

(* main(), lines 190-261: the module loop is over (or no module was asked  *)
(* for); the ntds gate is evaluated.                                       *)
ModulesDone ==
    /\ pc = "module"
    /\ module_it >= Len(args.module)
    /\ IF NeedsNtdsPrompt
       THEN /\ pc' = "ntds_prompt"
            /\ prompts' = Append(prompts, "ntds")
       ELSE /\ pc' = "dispatch"
            /\ UNCHANGED prompts
    /\ UNCHANGED <<exit_code, exc, argv, args, ignore_opsec, cred_it, target_it,
                   targets, module_it, proto, servers, module_server, db, ans>>
    /\ UNCHANGED dispatchVars

(* main(), lines 262-263: the answer to the ntds prompt is checked.        *)
NtdsCheck ==
    /\ pc = "ntds_check"
    /\ IF Declined(ans)
       THEN DeclineExit
       ELSE /\ pc' = "dispatch"
            /\ ans' = NoAnswer
            /\ UNCHANGED <<exit_code, exc>>
    /\ UNCHANGED <<argv, args, ignore_opsec, cred_it, target_it, targets,
                   module_it, proto, servers, module_server, db, prompts>>
    /\ UNCHANGED dispatchVars

-----------------------------------------------------------------------------
(* start_run(), lines 55-74, on a ThreadPoolExecutor(max_workers =         *)
(* args.threads + 1).  A future is [target, state], state being "pending"  *)
(* (queued), "running", "done" (returned) or "failed" (raised).            *)
setupVars == <<argv, args, ignore_opsec, cred_it, target_it, targets,
               module_it, proto, module_server, prompts, ans>>

Finished(f) == f.state \in {"done", "failed"}
Running == {i \in DOMAIN futures : futures[i].state = "running"}
Pending == {i \in DOMAIN futures : futures[i].state = "pending"}
AllFinished == \A i \in DOMAIN futures : Finished(futures[i])

\* max_workers one too large
MaxWorkersMutant(a) == a.threads + 2

\* Lines 58, 63: max_workers
MaxWorkers(a) == a.threads + 1

\* Line 57: the branch without the progress UI
NoProgressBranch(a, ts) == a.no_progress \/ Len(ts) = 1

\* AfterSubmit with the comprehension stopping one target short
AfterSubmitMutant(n, live) ==
    IF n + 1 < Len(targets) THEN "submit"
    ELSE IF live /\ n > 0 THEN "as_completed"
    ELSE "shutdown"

\* Where start_run stands once n of the targets are submitted
AfterSubmit(n, live) ==
    IF n < Len(targets) THEN "submit"
    ELSE IF live /\ n > 0 THEN "as_completed"
    ELSE "shutdown"

(* Lines 56-70: branch choice, executor (and Progress) construction.       *)
StartRun ==
    /\ pc = "dispatch"
    /\ pool' = MaxWorkers(args)
    /\ LET live == ~NoProgressBranch(args, targets) IN
         /\ progress' = IF live THEN "live" ELSE "none"
         /\ pc' = AfterSubmit(0, live)
    /\ current' = 0
    /\ UNCHANGED <<exit_code, exc, servers, db, futures, yielded>>
    /\ UNCHANGED setupVars

(* Lines 60, 71: executor.submit for the next target of the list.          *)
Submit ==
    /\ pc = "submit"
    /\ LET n == Len(futures) + 1 IN
         /\ futures' = Append(futures, [target |-> targets[n], state |-> "pending"])
         /\ pc' = AfterSubmit(n, progress = "live")
    /\ UNCHANGED <<exit_code, exc, servers, db, pool, progress, current, yielded>>
    /\ UNCHANGED setupVars

(* Lines 60, 71: executor.submit raises (no new thread can be started).    *)
SubmitRaises ==
    /\ pc = "submit"
    /\ exc' = "RuntimeError"
    /\ pc' = "shutdown"
    /\ UNCHANGED <<exit_code, servers, db, futures, pool, progress, current, yielded>>
    /\ UNCHANGED setupVars

\* A worker may take work item i: it heads the queue and a worker is free
CanStart(i) ==
    /\ i \in Pending
    /\ \A j \in Pending : i <= j
    /\ Cardinality(Running) < pool

(* A pool worker takes the oldest queued work item and calls the handler.  *)
WorkerStart ==
    /\ \E i \in DOMAIN futures :
         /\ CanStart(i)
         /\ futures' = [futures EXCEPT ![i].state = "running"]
    /\ UNCHANGED <<pc, exit_code, exc, servers, db, pool, progress, current, yielded>>
    /\ UNCHANGED setupVars

\* HandlerEnd with a failure cancelling the work items still queued
HandlerEndMutant(fs, i, how) ==
    [j \in DOMAIN fs |->
        IF j = i THEN [fs[j] EXCEPT !.state = how]
        ELSE IF how = "failed" /\ fs[j].state = "pending"
             THEN [fs[j] EXCEPT !.state = "failed"]
        ELSE fs[j]]

\* What one handler's end does to the work items: only its own future changes
HandlerEnd(fs, i, how) == [fs EXCEPT ![i].state = how]

(* protocol_obj(args, db, target) returns.                                 *)
HandlerReturn ==
    /\ \E i \in Running : futures' = HandlerEnd(futures, i, "done")
    /\ UNCHANGED <<pc, exit_code, exc, servers, db, pool, progress, current, yielded>>
    /\ UNCHANGED setupVars

(* protocol_obj(args, db, target) raises: the exception is kept in the     *)
(* future, which nobody asks for its result.                               *)
HandlerRaise ==
    /\ \E i \in Running : futures' = HandlerEnd(futures, i, "failed")
    /\ UNCHANGED <<pc, exit_code, exc, servers, db, pool, progress, current, yielded>>
    /\ UNCHANGED setupVars

\* AsCompletedNext with only the handlers that returned counted
AsCompletedNextMutant ==
    /\ pc = "as_completed"
    /\ \E i \in DOMAIN futures :
         /\ Finished(futures[i])
         /\ i \notin yielded
         /\ yielded' = yielded \cup {i}
         /\ current' = IF futures[i].state = "done" THEN current + 1 ELSE current
    /\ pc' = IF Cardinality(yielded') = Len(futures) THEN "shutdown" ELSE pc
    /\ UNCHANGED <<exit_code, exc, servers, db, futures, pool, progress>>
    /\ UNCHANGED setupVars

(* Lines 72-74: as_completed yields a finished future; one loop iteration. *)
AsCompletedNext ==
    /\ pc = "as_completed"
    /\ \E i \in DOMAIN futures :
         /\ Finished(futures[i])
         /\ i \notin yielded
         /\ yielded' = yielded \cup {i}
    /\ current' = current + 1
    /\ pc' = IF Cardinality(yielded') = Len(futures) THEN "shutdown" ELSE pc
    /\ UNCHANGED <<exit_code, exc, servers, db, futures, pool, progress>>
    /\ UNCHANGED setupVars

\* ExecutorExit with the executor shut down without waiting for its workers
ExecutorExitMutant ==
    /\ pc = "shutdown"
    /\ progress' = IF progress = "live" THEN "closed" ELSE progress
    /\ pc' = "finally"
    /\ UNCHANGED <<exit_code, exc, servers, db, futures, pool, current, yielded>>
    /\ UNCHANGED setupVars

(* End of the with blocks: executor.shutdown(wait=True) returns when every *)
(* work item has finished; Progress closes; start_run ends.                *)
ExecutorExit ==
    /\ pc = "shutdown"
    /\ AllFinished
    /\ progress' = IF progress = "live" THEN "closed" ELSE progress
    /\ pc' = "finally"
    /\ UNCHANGED <<exit_code, exc, servers, db, futures, pool, current, yielded>>
    /\ UNCHANGED setupVars

(* KeyboardInterrupt in the main thread during start_run.  Inside the with *)
(* body it unwinds into executor.shutdown(wait=True); during that wait it  *)
(* ends the wait and leaves the unfinished work items behind.              *)
Interrupt ==
    /\ pc \in {"submit", "as_completed", "shutdown"}
    /\ exc' = "KeyboardInterrupt"
    /\ IF pc = "shutdown"
       THEN /\ ~AllFinished
            /\ pc' = "finally"
            /\ progress' = IF progress = "live" THEN "closed" ELSE progress
       ELSE /\ pc' = "shutdown"
            /\ UNCHANGED progress
    /\ UNCHANGED <<exit_code, servers, db, futures, pool, current, yielded>>
    /\ UNCHANGED setupVars

-----------------------------------------------------------------------------
\* Lines 270-271: module_server.shutdown() when module_server is set
ServerShutdown(srvs, ms) ==
    IF ms # 0 THEN [srvs EXCEPT ![ms].shutdown_calls = @ + 1] ELSE srvs

\* Teardown with the cleanup skipped after a KeyboardInterrupt
TeardownMutant ==
    /\ pc = "finally"
    /\ IF exc = "KeyboardInterrupt"
       THEN UNCHANGED <<servers, db>>
       ELSE /\ servers' = ServerShutdown(servers, module_server)
            /\ db' = [state |-> "disposed", disposed |-> db.disposed + 1]
    /\ Exit(IF exc = "RuntimeError" THEN 1 ELSE 0)
    /\ UNCHANGED <<exc, futures, pool, progress, current, yielded>>
    /\ UNCHANGED setupVars

(* main(), lines 267-272: except KeyboardInterrupt / finally, then the     *)
(* process ends (an exception other than KeyboardInterrupt goes on up).    *)
Teardown ==
    /\ pc = "finally"
    /\ servers' = ServerShutdown(servers, module_server)
    /\ db' = [state |-> "disposed", disposed |-> db.disposed + 1]
    /\ Exit(IF exc = "RuntimeError" THEN 1 ELSE 0)
    /\ UNCHANGED <<exc, futures, pool, progress, current, yielded>>
    /\ UNCHANGED setupVars

-----------------------------------------------------------------------------
(* Inputs.                                                                 *)
\* --id values: "2", "1-2", "2-3", "3-1", "x-2", "1-", "1-2-3"
CredIdArgs ==
    {PyStr(<<"2">>), PyStr(<<"1", "-", "2">>), PyStr(<<"2", "-", "3">>),
     PyStr(<<"3", "-", "1">>), PyStr(<<"x", "-", "2">>), PyStr(<<"1", "-">>),
     PyStr(<<"1", "-", "2", "-", "3">>)}

\* target arguments: hosts, a range, and files of the three kinds
TargetArg(kind, lines) == [file |-> kind, lines |-> lines]
TargetArgs ==
    {TargetArg("none", <<Expr(1, 1)>>), TargetArg("none", <<Expr(2, 2)>>),
     TargetArg("none", <<Expr(1, 2)>>),
     TargetArg("list", <<Expr(2, 2), Expr(1, 1)>>),
     TargetArg("nmap", <<Expr(1, 1), Expr(3, 3)>>),
     TargetArg("nessus", <<Expr(3, 3)>>)}

ModuleArgs == DOMAIN modules \cup {"nope"}

BaseArgs ==
    [cred_id |-> <<>>, target |-> <<>>, module |-> <<>>, server |-> "https",
     server_port |-> 0, ntds |-> FALSE, userntds |-> FALSE,
     no_progress |-> FALSE, threads |-> 0]

\* The state when main() starts with command line a
Start(a, io) ==
    /\ pc = "cred_id"
    /\ exit_code = -1
    /\ argv = a
    /\ args = a
    /\ ignore_opsec = io
    /\ cred_it = 0
    /\ target_it = 0
    /\ targets = <<>>
    /\ module_it = 0
    /\ proto = [module |-> <<>>, server |-> 0]
    /\ servers = <<>>
    /\ module_server = 0
    /\ db = [state |-> "none", disposed |-> 0]
    /\ prompts = <<>>
    /\ ans = NoAnswer
    /\ futures = <<>>
    /\ pool = 0
    /\ progress = "none"
    /\ current = 0
    /\ yielded = {}
    /\ exc = "none"

HasHooks(ms) == \E i \in DOMAIN ms : ms[i] \in DOMAIN modules /\ modules[ms[i]].hooks
HasUnsafe(ms) == \E i \in DOMAIN ms : ms[i] \in DOMAIN modules /\ ~modules[ms[i]].opsec_safe

\* The command lines of the full runs: without --id or with a malformed one;
\* no target, one host, or a range of two; the server options left at their
\* defaults unless a module with hooks is asked for.
Init ==
    \E cr \in {<<>>, <<PyStr(<<"x", "-", "2">>)>>},
       tg \in {<<>>, <<TargetArg("none", <<Expr(1, 1)>>)>>,
               <<TargetArg("none", <<Expr(1, 2)>>)>>},
       ms \in SeqsUpTo(ModuleArgs, MaxModules),
       sv \in {<<"https", 0>>, <<"http", 0>>, <<"https", 8080>>},
       nt \in {<<FALSE, FALSE>>, <<TRUE, FALSE>>},
       np \in BOOLEAN, th \in {0, MaxThreads}, io \in BOOLEAN :
        /\ HasHooks(ms) \/ sv = <<"https", 0>>
        /\ HasUnsafe(ms) \/ ~io
        /\ Start([cred_id |-> cr, target |-> tg, module |-> ms, server |-> sv[1],
                  server_port |-> sv[2], ntds |-> nt[1], userntds |-> nt[2],
                  no_progress |-> np, threads |-> th], io)

Next ==
    \/ CredIdExpand \/ CredIdDone
    \/ TargetExtend \/ TargetDone
    \/ ModuleLoad \/ OperatorAnswers \/ OpsecCheck \/ HostsCheck \/ ModulesDone
    \/ NtdsCheck
    \/ StartRun \/ Submit \/ SubmitRaises \/ WorkerStart \/ HandlerReturn
    \/ HandlerRaise \/ AsCompletedNext \/ ExecutorExit \/ Interrupt
    \/ Teardown

Spec == Init /\ [][Next]_vars

-----------------------------------------------------------------------------
(* The credential-id expansion alone, over every list of --id values.      *)
InitCredId ==
    \E cr \in SeqsUpTo(CredIdArgs, MaxCredIds) :
        Start([BaseArgs EXCEPT !.cred_id = cr], FALSE)

NextCredId == CredIdExpand \/ CredIdDone

SpecCredId == InitCredId /\ [][NextCredId]_vars

(* Target building alone: main() at line 131, no --id given.               *)
InitTarget ==
    \E tg \in SeqsUpTo(TargetArgs, MaxTargetArgs) :
        /\ pc = "target"
        /\ exit_code = -1
        /\ argv = [BaseArgs EXCEPT !.target = tg]
        /\ args = argv
        /\ ignore_opsec = FALSE
        /\ cred_it = 0
        /\ target_it = 0
        /\ targets = <<>>
        /\ module_it = 0
        /\ proto = [module |-> <<>>, server |-> 0]
        /\ servers = <<>>
        /\ module_server = 0
        /\ db = [state |-> "none", disposed |-> 0]
        /\ prompts = <<>>
        /\ ans = NoAnswer
        /\ futures = <<>>
        /\ pool = 0
        /\ progress = "none"
        /\ current = 0
        /\ yielded = {}
        /\ exc = "none"

NextTarget == TargetExtend \/ TargetDone

SpecTarget == InitTarget /\ [][NextTarget]_vars

(* Dispatch alone: main() at line 265 of a run without modules and without *)
(* the ntds option, over every target list and worker width.               *)
Addresses == 1..2

InitDispatch ==
    \E ts \in SeqsUpTo(Addresses, MaxTargets), np \in BOOLEAN, th \in 0..MaxThreads :
        /\ pc = "dispatch"
        /\ exit_code = -1
        /\ argv = [BaseArgs EXCEPT
                     !.target = [i \in DOMAIN ts |-> TargetArg("none", <<Expr(ts[i], ts[i])>>)],
                     !.no_progress = np, !.threads = th]
        /\ args = argv
        /\ ignore_opsec = FALSE
        /\ cred_it = 0
        /\ target_it = Len(ts)
        /\ targets = ts
        /\ module_it = 0
        /\ proto = [module |-> <<>>, server |-> 0]
        /\ servers = <<>>
        /\ module_server = 0
        /\ db = [state |-> "created", disposed |-> 0]
        /\ prompts = <<>>
        /\ ans = NoAnswer
        /\ futures = <<>>
        /\ pool = 0
        /\ progress = "none"
        /\ current = 0
        /\ yielded = {}
        /\ exc = "none"

NextDispatch ==
    \/ StartRun \/ Submit \/ SubmitRaises \/ WorkerStart \/ HandlerReturn
    \/ HandlerRaise \/ AsCompletedNext \/ ExecutorExit \/ Interrupt
    \/ Teardown

SpecDispatch == InitDispatch /\ [][NextDispatch]_vars

-----------------------------------------------------------------------------
(* Properties.                                                             *)

\* C1: at most args.threads + 1 handler invocations execute at the same
\* time, in the progress branch and in the branch without progress.
C1_WorkerBound == Cardinality(Running) <= args.threads + 1

\* C1 witness: the pool is full while a work item still waits in the queue.
C1_Witness ==
    /\ Cardinality(Running) = args.threads + 1
    /\ Pending # {}
    /\ progress = "live"

\* C2 (as claimed): at the end of a run in which a loaded module has the
\* request/response hooks and no server construction or start failed, exactly
\* one server start and exactly one server stop have been issued.
C2_OneStartOneStop ==
    (/\ pc = "exited"
     /\ HasHooks(proto.module)
     /\ Len(servers) = Cardinality({i \in DOMAIN proto.module : modules[proto.module[i]].hooks})
     /\ \A i \in DOMAIN servers : servers[i].started)
    => /\ SeqSum([i \in DOMAIN servers |-> servers[i].start_calls]) = 1
       /\ SeqSum([i \in DOMAIN servers |-> servers[i].shutdown_calls]) = 1

\* C3 (as claimed): a run ended by a declined prompt has a non-zero exit
\* status, every callback server it started is stopped and the db engine is
\* disposed.
C3_DeclineTeardown ==
    (pc = "exited" /\ ans # NoAnswer)
    => /\ exit_code # 0
       /\ \A i \in DOMAIN servers :
            servers[i].started => servers[i].shutdown_calls >= 1
       /\ db.state = "disposed"

\* First occurrences of the elements of a list, in order
RECURSIVE FirstSeen(_, _)
FirstSeen(s, seen) ==
    IF s = <<>> THEN <<>>
    ELSE IF Head(s) \in seen THEN FirstSeen(Tail(s), seen)
    ELSE <<Head(s)>> \o FirstSeen(Tail(s), seen \cup {Head(s)})

\* The addresses of all target arguments, in the order given
InputAddresses ==
    Flatten([i \in DOMAIN argv.target |-> TargetBody(<<>>, argv.target[i])])

\* C4 (as claimed): the target list that main() has built holds each address
\* of its inputs exactly once, in first-seen order.
C4_TargetsDeduplicated ==
    pc = "module" => targets = FirstSeen(InputAddresses, {})

\* A --id value "a-b" with integers a <= b, and one with a bad bound or a > b
IdParts(e) == SplitDash(e.s, <<>>)
IsRangeExpr(e) == e.t = "str" /\ Len(IdParts(e)) = 2
WellFormedRange(e) ==
    /\ IsRangeExpr(e)
    /\ ~IntRaises(IdParts(e)[1]) /\ ~IntRaises(IdParts(e)[2])
    /\ IntOf(IdParts(e)[1]) <= IntOf(IdParts(e)[2])
MalformedRange(e) == IsRangeExpr(e) /\ ~WellFormedRange(e)

\* C5 (as claimed): once the expansion of a list of plain ids and ranges
\* "a-b" (a <= b) is over, every range of the given list is gone from the list
\* and a, ..., b are all in it.
C5_RangesExpanded ==
    (/\ pc = "target"
     /\ \A i \in DOMAIN argv.cred_id :
          ~HasDash(argv.cred_id[i]) \/ WellFormedRange(argv.cred_id[i]))
    => \A i \in DOMAIN argv.cred_id :
            LET e == argv.cred_id[i] IN
                WellFormedRange(e) =>
                    /\ e \notin Range(args.cred_id)
                    /\ \A n \in IntOf(IdParts(e)[1]) .. IntOf(IdParts(e)[2]) :
                          PyInt(n) \in Range(args.cred_id)

\* C6 (as claimed): a run given a malformed range never gets past the
\* expansion: it ends with exit status 1 and no handler is ever called.
C6_MalformedAborts ==
    (\E i \in DOMAIN argv.cred_id : MalformedRange(argv.cred_id[i]))
    => /\ pc \in {"cred_id", "exited"}
       /\ pc = "exited" => exit_code = 1
       /\ futures = <<>>

\* The answers that stand for empty/"y"/"yes", whatever their case
AgreeingAnswers == {"", "y", "Y", "yes", "Yes", "YES"}

PromptsOf(name) ==
    (IF ~modules[name].opsec_safe /\ ~ignore_opsec THEN <<"opsec">> ELSE <<>>)
    \o (IF ~modules[name].multiple_hosts /\ Len(targets) > 1 THEN <<"hosts">> ELSE <<>>)
ExpectedPrompts ==
    Flatten([i \in DOMAIN args.module |-> PromptsOf(Lower(args.module[i]))])
    \o (IF args.ntds /\ ~args.userntds THEN <<"ntds">> ELSE <<>>)

\* C8: once the executor exists, every prompt of the run has been issued and
\* answered: none is pending, and all of them are in the record of prompts.
C8_PromptsBeforeDispatch ==
    (pool # 0 \/ futures # <<>>)
    => /\ pc \in {"submit", "as_completed", "shutdown", "finally", "exited"}
       /\ ans = NoAnswer
       /\ module_it = Len(args.module)
       /\ prompts = ExpectedPrompts

\* C8 witness: handlers are being called in a run that issued all three prompts.
C8_Witness ==
    /\ futures # <<>>
    /\ prompts = <<"opsec", "hosts", "ntds">>

\* C9: work items are submitted in target-list order, and when start_run has
\* returned (no interrupt, no exception) there is exactly one per target and
\* each has run its handler to the end; with or without the progress display.
C9_OncePerTarget ==
    /\ \A i \in DOMAIN futures : i <= Len(targets) /\ futures[i].target = targets[i]
    /\ (pc \in {"finally", "exited"} /\ exc = "none")
       => (Len(futures) = Len(targets) /\ AllFinished)

\* C9 witness: an uninterrupted run over several distinct targets has ended.
C9_Witness ==
    /\ pc = "exited" /\ exc = "none"
    /\ Len(futures) = MaxTargets
    /\ \E i, j \in DOMAIN futures : futures[i].target # futures[j].target

\* C10: a handler that raises changes no other work item and raises nothing
\* in start_run; the run still ends with every handler finished, the db
\* engine disposed and exit status 0.
C10_FailureIsolated ==
    /\ [][\A i \in DOMAIN futures :
            (futures[i].state = "running" /\ futures'[i].state = "failed")
            => (/\ \A j \in DOMAIN futures \ {i} : futures'[j] = futures[j]
                /\ exc' = exc /\ pc' = pc)]_vars
    /\ []((/\ pc = "exited" /\ exc = "none"
           /\ \E i \in DOMAIN futures : futures[i].state = "failed")
          => (/\ Len(futures) = Len(targets) /\ AllFinished
              /\ db.state = "disposed" /\ exit_code = 0))

\* C10 witness: a run has ended in which a handler raised and another returned.
C10_Witness ==
    /\ pc = "exited" /\ exc = "none"
    /\ \E i, j \in DOMAIN futures :
         futures[i].state = "failed" /\ futures[j].state = "done"

\* C11: unless a keyboard interrupt was observed, start_run has returned (the
\* finally block is reached, the db engine disposed or a server shutdown
\* issued) only when no work item is queued or running; with or without the
\* progress display.
C11_TeardownAfterHandlers ==
    (/\ exc # "KeyboardInterrupt"
     /\ \/ pc = "finally"
        \/ db.state = "disposed"
        \/ \E i \in DOMAIN servers : servers[i].shutdown_calls > 0)
    => (Running = {} /\ Pending = {})

\* C11 witness: an uninterrupted run with the progress display over several
\* targets has shut its callback server down and disposed the db engine.
C11_Witness ==
    /\ pc = "exited" /\ exc = "none"
    /\ progress = "closed"
    /\ Len(futures) > 1
    /\ db.state = "disposed"
    /\ \E i \in DOMAIN servers : servers[i].shutdown_calls > 0

\* Loaded modules that have the request/response hooks
HookModules == {i \in DOMAIN proto.module : modules[proto.module[i]].hooks}

\* C12 (as claimed): at the end of a run that loaded two or more modules with
\* the request/response hooks and went through the finally block, at most one
\* server start has been issued and every started server has been stopped.
C12_ServerSingleton ==
    (/\ pc = "exited"
     /\ db.state = "disposed"
     /\ Cardinality(HookModules) >= 2)
    => /\ SeqSum([i \in DOMAIN servers |-> servers[i].start_calls]) <= 1
       /\ \A i \in DOMAIN servers :
            servers[i].started => servers[i].shutdown_calls >= 1

\* The server kind the claim resolves for a module: its required_server if
\* it declares one, the configured kind otherwise
ResolvedKind(name) ==
    IF modules[name].required_server # "" THEN modules[name].required_server
    ELSE argv.server

\* C13 (as claimed): when no server port was configured, every started server
\* is of the resolved kind of its module and is bound to the table default
\* of that kind.
C13_DefaultPort ==
    argv.server_port = 0
    => \A i \in DOMAIN servers :
         servers[i].started
         => /\ servers[i].kind = ResolvedKind(servers[i].module)
            /\ servers[i].port = server_port_dict[ResolvedKind(servers[i].module)]

\* A server construction or start of this run has failed
ServerFailed == \E i \in DOMAIN servers : ~servers[i].started

\* C14: a failed server construction or start leaves its module attached like
\* any other, ends the run with no exit of its own (an exit(1) still comes
\* only from a declined prompt or an unknown module), and a run with such a
\* failure that got through start_run has attached every module and run a
\* handler to its end for every target.
C14_ServerFailureTolerated ==
    /\ Len(servers) = Cardinality(HookModules)
    /\ (ServerFailed /\ pc = "exited" /\ exc = "SystemExit")
       => \/ ans # NoAnswer
          \/ Lower(args.module[module_it]) \notin DOMAIN modules
    /\ (ServerFailed /\ pc = "exited" /\ exc = "none")
       => /\ proto.module = [i \in DOMAIN args.module |-> Lower(args.module[i])]
          /\ Len(futures) = Len(targets)
          /\ AllFinished

\* C14 witness: the server of the first of two modules failed, both modules
\* are attached and the run has ended after a handler call for each target.
C14_Witness ==
    /\ pc = "exited" /\ exc = "none"
    /\ Len(servers) > 0 /\ ~servers[1].started
    /\ Len(proto.module) = 2
    /\ Len(futures) > 1 /\ AllFinished

\* C15 (as claimed): once start_run has chosen its branch, the progress
\* display exists exactly when it is enabled and there is more than one target.
C15_ProgressUI ==
    pool # 0
    => ((progress # "none") <=> (~args.no_progress /\ Len(targets) > 1))

\* C16: from the start of dispatch to the finally block the db engine exists
\* and is not disposed; a run that started dispatch ends with the engine
\* disposed exactly once, whatever ended start_run; a run ended by a keyboard
\* interrupt has exit status 0.
C16_DbDisposedOnce ==
    /\ pc \in {"dispatch", "submit", "as_completed", "shutdown", "finally"}
       => db = [state |-> "created", disposed |-> 0]
    /\ (pc = "exited" /\ pool # 0)
       => (db.state = "disposed" /\ db.disposed = 1)
    /\ (pc = "exited" /\ exc = "KeyboardInterrupt") => exit_code = 0

\* C16 witness: a run interrupted while a handler had raised and another was
\* still running has ended with the db engine disposed.
C16_Witness ==
    /\ pc = "exited" /\ exc = "KeyboardInterrupt"
    /\ db.disposed = 1
    /\ \E i, j \in DOMAIN futures :
         futures[i].state = "failed" /\ futures[j].state = "running"

\* C17: with the progress display, the completed count is the number of
\* futures as_completed has yielded, each of them finished; it never exceeds
\* the number of targets, grows by one with each yielded future and not
\* otherwise, and is the number of targets when an uninterrupted start_run
\* has returned.
C17_ProgressCount ==
    /\ [](progress # "none"
          => /\ current = Cardinality(yielded)
             /\ current <= Len(targets)
             /\ \A i \in yielded : Finished(futures[i]))
    /\ [][IF yielded' # yielded THEN current' = current + 1
          ELSE current' = current]_vars
    /\ []((progress = "closed" /\ exc = "none") => current = Len(targets))

\* C17 witness: an uninterrupted run with the progress display has ended with
\* the count at the number of targets, one of the handlers having raised.
C17_Witness ==
    /\ pc = "exited" /\ exc = "none"
    /\ progress = "closed"
    /\ current = MaxTargets
    /\ \E i \in DOMAIN futures : futures[i].state = "failed"

\* C18 (as claimed): a shutdown call is made only on a server whose start
\* succeeded.
C18_ShutdownOnlyStarted ==
    \A i \in DOMAIN servers : servers[i].shutdown_calls > 0 => servers[i].started

====
